---- MODULE Spec2Model ----
(***************************************************************************)
(* Model of the orbit camera and the orbiting-entity simulation of         *)
(* src/src/js/scene.js (King Kai's planet demo).                           *)
(*                                                                         *)
(* Numbers.  JavaScript Numbers are modelled in fixed point with three     *)
(* decimals: the integer 1600 stands for 1.6 (radians, seconds, world      *)
(* units alike).  A product a*b of two such numbers is (a*b) \div 1000 and  *)
(* a quotient a/b is (a*1000) \div b.  Math.random() is a value r in        *)
(* 0..999 standing for r/1000; every place that calls it draws r from a    *)
(* named set of the random domain record the specification passes in.     *)
(***************************************************************************)
EXTENDS Integers, Sequences, FiniteSets, TLC

VARIABLES
    camera,         \* scene.js `camera`: theta, phi, radius, drag state
    cameraInput,    \* scene.js `cameraInput`: the six held-key flags
    glRef,          \* scene.js `glRef`: TRUE once initScene has run
    orbStates,      \* scene.js `orbStates`: the live entities, in order
    orbCount,       \* scene.js `orbCount`
    retiredTrails,  \* scene.js `retiredTrails`
    orbIdCounter,   \* scene.js `orbIdCounter`
    history         \* what the last operation was and what it observed

vars == <<camera, cameraInput, glRef, orbStates, orbCount, retiredTrails,
          orbIdCounter, history>>

camVars == <<camera, cameraInput>>
orbVars == <<glRef, orbStates, orbCount, retiredTrails, orbIdCounter>>

(***************************************************************************)
(* Fixed-point arithmetic                                                  *)
(***************************************************************************)
Min(a, b) == IF a < b THEN a ELSE b
Max(a, b) == IF a > b THEN a ELSE b
Abs(a) == IF a < 0 THEN -a ELSE a

\* Division that truncates toward zero, as rounding a JS quotient does
\* symmetrically for both signs.
Quot(a, b) == IF a >= 0 THEN a \div b ELSE -((-a) \div b)

\* a*b and a/b of two fixed-point numbers.
Mul(a, b) == Quot(a * b, 1000)
Div(a, b) == Quot(a * 1000, b)

\* Math.PI and 2*Math.PI.
PI == 3142
TwoPi == 2 * PI
HalfPi == PI \div 2

RECURSIVE IsqrtIter(_, _)
IsqrtIter(n, x) ==
    LET y == (x + n \div x) \div 2
    IN  IF y >= x THEN x ELSE IsqrtIter(n, y)

\* floor(sqrt(n)) of a plain integer.
Isqrt(n) == IF n <= 0 THEN 0 ELSE IsqrtIter(n, n)

\* Math.sqrt of a fixed-point number.
Sqrt(a) == Isqrt(a * 1000)

\* Math.sin: Bhaskara's rational approximation on [0, pi], extended by
\* sin(x + pi) = -sin(x) and periodicity; exact at 0, pi/2 and pi.
SinHalf(y) == (16 * y * (PI - y)) \div ((5 * PI * PI - 4 * y * (PI - y)) \div 1000)
Sin(x) ==
    LET y == x % TwoPi
    IN  IF y <= PI THEN SinHalf(y) ELSE -SinHalf(y - PI)
Cos(x) == Sin(x + HalfPi)

\* A function over 1..n as an explicit sequence.
AsSeq(f) == f \o << >>

\* Math.hypot of three fixed-point components.
Hypot(x, y, z) == Isqrt(x * x + y * y + z * z)

(***************************************************************************)
(* Orbit camera (scene.js 148-171, 1305-1422, 475-491)                     *)
(***************************************************************************)
MinPhi == 100
MaxPhi == PI - 100

CameraMinRadius == 2500
CameraMaxRadius == 8000
RotationSpeedTenths == 35   \* rotationSpeed 0.0035 per pixel = 3.5/1000
ZoomSpeed == 150

CameraInit ==
    [radius |-> 4500, theta |-> 0, phi |-> PI \div 3,
     isDragging |-> FALSE, lastMouseX |-> 0, lastMouseY |-> 0]

CameraInputInit ==
    [left |-> FALSE, right |-> FALSE, up |-> FALSE, down |-> FALSE,
     zoomIn |-> FALSE, zoomOut |-> FALSE]

\* event.key.toLowerCase() on the keys the model presses.
ToLowerCase(key) ==
    CASE key = "A" -> "a"
      [] key = "ArrowUp" -> "arrowup"
      [] key = "ArrowDown" -> "arrowdown"
      [] OTHER -> key

\* The switch of handleKeyDown / handleKeyUp: the flag a key drives, or
\* "none" for the default branch.
KeyFlag(key) ==
    LET k == ToLowerCase(key)
    IN  CASE k \in {"a", "arrowleft"} -> "left"
          [] k \in {"d", "arrowright"} -> "right"
          [] k \in {"w", "arrowup"} -> "up"
          [] k \in {"s", "arrowdown"} -> "down"
          [] k \in {"q", "-"} -> "zoomIn"
          [] k \in {"e", "+", "="} -> "zoomOut"
          [] OTHER -> "none"

SetKey(input, key, held) ==
    IF KeyFlag(key) = "none" THEN input
    ELSE [input EXCEPT ![KeyFlag(key)] = held]

ClampPhiUnclamped(phi) == phi
ClampPhi(phi) == Max(MinPhi, Min(MaxPhi, phi))

ClampCameraRadius(cam, r) == Max(CameraMinRadius, Min(CameraMaxRadius, r))

\* handleMouseMove, for an event carrying numeric movementX / movementY.
MouseMoved(cam, ev) ==
    IF ~cam.isDragging THEN cam
    ELSE [cam EXCEPT
            !.theta = cam.theta + Quot(ev.movementX * RotationSpeedTenths, 10),
            !.phi = ClampPhi(cam.phi - Quot(ev.movementY * RotationSpeedTenths, 10)),
            !.lastMouseX = ev.clientX,
            !.lastMouseY = ev.clientY]

\* handleWheel: delta = deltaY * zoomSpeed * 0.01.
Wheeled(cam, deltaY) ==
    [cam EXCEPT !.radius =
        ClampCameraRadius(cam, cam.radius + Quot(deltaY * ZoomSpeed, 100))]

\* setCameraState: a field is applied when typeof field === "number".
CameraStateSet(cam, arg) ==
    [cam EXCEPT
        !.theta = IF arg.hasTheta THEN arg.theta ELSE @,
        !.phi = IF arg.hasPhi THEN ClampPhi(arg.phi) ELSE @,
        !.radius = IF arg.hasRadius THEN ClampCameraRadius(cam, arg.radius) ELSE @]

\* applyCameraKeyboard(dt): the six flags are tested in order.
KeyboardZoomDelta(dt) == Mul(ZoomSpeed, 1200)

KeyboardPhiDown(phi, rotSpeed) == Min(MaxPhi, phi + rotSpeed)

CameraKeyboardApplied(cam, input, dt) ==
    LET rotSpeed == Mul(1400, dt)
        zoomDelta == KeyboardZoomDelta(dt)
        th1 == IF input.left THEN cam.theta - rotSpeed ELSE cam.theta
        th2 == IF input.right THEN th1 + rotSpeed ELSE th1
        ph1 == IF input.up THEN Max(MinPhi, cam.phi - rotSpeed) ELSE cam.phi
        ph2 == IF input.down THEN KeyboardPhiDown(ph1, rotSpeed) ELSE ph1
        r1 == IF input.zoomIn THEN Max(CameraMinRadius, cam.radius - zoomDelta)
              ELSE cam.radius
        r2 == IF input.zoomOut THEN Min(CameraMaxRadius, r1 + zoomDelta) ELSE r1
    IN  [cam EXCEPT !.theta = th2, !.phi = ph2, !.radius = r2]

(***************************************************************************)
(* Vectors and the orbit position kernel                                   *)
(***************************************************************************)
ORBIT_MIN_RADIUS == 1150
ORBIT_MAX_RADIUS == 2050
ORBIT_MIN_HEIGHT == -350
ORBIT_MAX_HEIGHT == 750
TELEPORT_BREAK_DIST == 550

\* orbState.targetId = null is modelled as 0: ids start at 1, and the code
\* tests the field for truthiness only.
NoTarget == 0

ClampOrbit(v, min, max) == Min(Max(v, min), max)

\* randomRange(min, max) for the Math.random() value r.
RandomRange(r, min, max) == Mul(r, max - min) + min

\* randomUnitVec3 for the two Math.random() values d[1] (u) and d[2] (theta).
RandomUnitVec3(d) ==
    LET u == RandomRange(d[1], -1000, 1000)
        theta == RandomRange(d[2], 0, TwoPi)
        s == Sqrt(1000 - Mul(u, u))
    IN  <<Mul(s, Cos(theta)), u, Mul(s, Sin(theta))>>

LerpVec3(a, b, t) ==
    <<a[1] + Mul(b[1] - a[1], t), a[2] + Mul(b[2] - a[2], t), a[3] + Mul(b[3] - a[3], t)>>

\* v / len for len = |v| > 0.  Floating-point division keeps its relative
\* precision for short vectors; here a short v is scaled up before the
\* integer square root and division, so that the quotient does too.
DivideByLength(v) ==
    LET m == Max(Abs(v[1]), Max(Abs(v[2]), Abs(v[3])))
        Divided(w, h) == <<Div(w[1], h), Div(w[2], h), Div(w[3], h)>>
        Scaled(w) == Divided(w, Hypot(w[1], w[2], w[3]))
        ScaledBy(k) == Scaled(<<k * v[1], k * v[2], k * v[3]>>)
    IN  ScaledBy(IF m = 0 THEN 1 ELSE Max(1, 10000 \div m))

\* normalizeVec3: a zero length is replaced by 1, which leaves the zero vector.
NormalizeVec3(v) ==
    IF Hypot(v[1], v[2], v[3]) = 0 THEN <<Div(v[1], 1000), Div(v[2], 1000), Div(v[3], 1000)>>
    ELSE DivideByLength(v)

Cross(a, b) ==
    <<Mul(a[2], b[3]) - Mul(a[3], b[2]),
      Mul(a[3], b[1]) - Mul(a[1], b[3]),
      Mul(a[1], b[2]) - Mul(a[2], b[1])>>

Length(v) == Hypot(v[1], v[2], v[3])

\* currentOrbiterPosition.
CurrentOrbiterPosition(o) ==
    LET a == o.angle
        r == o.renderRadius
        h == o.renderHeight
        n == o.planeNormal
        helper == IF Abs(n[2]) < 900 THEN <<0, 1000, 0>> ELSE <<1000, 0, 0>>
        Point(right, forward, c, s) ==
            <<Mul(Mul(right[1], c), r) + Mul(Mul(forward[1], s), r) + Mul(n[1], h),
              Mul(Mul(right[2], c), r) + Mul(Mul(forward[2], s), r) + Mul(n[2], h),
              Mul(Mul(right[3], c), r) + Mul(Mul(forward[3], s), r) + Mul(n[3], h)>>
        OnBasis(right) == Point(right, Cross(right, n), Cos(a), Sin(a))
    IN  OnBasis(NormalizeVec3(Cross(n, helper)))

Distance(p, q) == Hypot(q[1] - p[1], q[2] - p[2], q[3] - p[3])

(***************************************************************************)
(* Entities: construction and flight segments                              *)
(***************************************************************************)
TrailMax == 220
RetiredFade == 1200
OrbSize == 70

\* createOrbState for the draws d (angle, direction, wobble phases, plane).
CreateOrbState(id, d) ==
    [id |-> id,
     angle |-> Mul(d.angle, TwoPi),
     angularSpeed |-> 600,
     radius |-> 1600,
     height |-> 200,
     trailMax |-> TrailMax,
     trailPositions |-> << >>,
     direction |-> IF d.direction < 500 THEN -1 ELSE 1,
     targetAngularSpeed |-> 600,
     targetRadius |-> 1600,
     targetHeight |-> 200,
     segmentTime |-> 0,
     segmentDuration |-> 1400,
     pauseTimer |-> 0,
     pauseDuration |-> 0,
     isPaused |-> FALSE,
     wobblePhaseA |-> Mul(d.wobbleA, TwoPi),
     wobblePhaseB |-> Mul(d.wobbleB, TwoPi),
     renderRadius |-> 1600,
     renderHeight |-> 200,
     planeNormal |-> RandomUnitVec3(d.unitVec),
     targetPlaneNormal |-> <<0, 1000, 0>>,
     teleportPlanned |-> FALSE,
     teleportDone |-> FALSE,
     skipTrailInterpolation |-> FALSE,
     isChaser |-> FALSE,
     targetId |-> NoTarget,
     \* Observations of the entity's latest updateSingleOrb call (not program
     \* state): whether it teleported, how many trail points it appended and
     \* how many it then shifted out, and the trail's last point before them.
     teleported |-> FALSE,
     appended |-> 0,
     evicted |-> 0,
     prevLast |-> <<0, 0, 0>>]

\* Lines 144-145: the end of pickNewFlightSegment drops both teleport flags.
KeepTeleportFlags(o) == o
ClearTeleportFlags(o) == [o EXCEPT !.teleportPlanned = FALSE, !.teleportDone = FALSE]

\* pickNewFlightSegment(orbState, forceFlip) for the draws d.
PickNewFlightSegment(o, forceFlip, d) ==
    LET nextRadius == RandomRange(d.radius, 1250, 1950)
        anywhere == RandomRange(d.anywhere, -320, 620)
        lift == Mul(Sin(Mul(o.wobblePhaseA, 500) + Mul(d.lift, 600)), 80)
    IN  [ClearTeleportFlags(o) EXCEPT
            !.direction = IF forceFlip \/ d.flip < 350 THEN -o.direction ELSE o.direction,
            !.segmentTime = 0,
            !.segmentDuration = RandomRange(d.segmentDuration, 900, 2400),
            !.targetAngularSpeed = RandomRange(d.speed, 350, 1800),
            !.targetRadius = ClampOrbit(nextRadius, ORBIT_MIN_RADIUS, ORBIT_MAX_RADIUS),
            !.targetHeight = ClampOrbit(anywhere + lift, ORBIT_MIN_HEIGHT, ORBIT_MAX_HEIGHT),
            !.targetPlaneNormal = IF forceFlip \/ d.newPlane < 600
                                  THEN RandomUnitVec3(d.unitVec) ELSE o.targetPlaneNormal]

\* The draws one pickNewFlightSegment call can make, from the domain D.
SegmentDraws(D) ==
    [flip : D.flip, segmentDuration : D.segmentDuration, speed : D.speed,
     radius : D.radius, anywhere : D.anywhere, lift : D.lift,
     newPlane : D.newPlane, unitVec : D.unitVec]

PickNewFlightSegmentSet(o, forceFlip, D) ==
    {PickNewFlightSegment(o, forceFlip, d) : d \in SegmentDraws(D)}

\* The loop body of initOrbiters / setOrbCount: create, seed the trail with
\* the current position, force a first segment.
CreateDraws(D) ==
    [angle : D.angle, direction : D.direction, wobbleA : D.wobbleA,
     wobbleB : D.wobbleB, unitVec : D.unitVec]

SeedOrbSet(id, R) ==
    UNION {
        LET state == CreateOrbState(id, d)
            seeded == [state EXCEPT !.trailPositions = <<CurrentOrbiterPosition(state)>>]
        IN  PickNewFlightSegmentSet(seeded, TRUE, R.createSegment)
        : d \in CreateDraws(R.create)}

\* performTeleport for the draws d.
PerformTeleport(o, d) ==
    LET newNormal == NormalizeVec3(RandomUnitVec3(d.unitVec))
        r == ClampOrbit(RandomRange(d.radius, 1200, 1950), ORBIT_MIN_RADIUS, ORBIT_MAX_RADIUS)
        h == ClampOrbit(RandomRange(d.height, -250, 550), ORBIT_MIN_HEIGHT, ORBIT_MAX_HEIGHT)
    IN  [o EXCEPT
            !.planeNormal = newNormal,
            !.targetPlaneNormal = newNormal,
            !.angle = RandomRange(d.angle, 0, TwoPi),
            !.radius = r,
            !.renderRadius = r,
            !.height = h,
            !.renderHeight = h,
            !.skipTrailInterpolation = TRUE]

TeleportDraws(D) ==
    [unitVec : D.unitVec, angle : D.angle, radius : D.radius, height : D.height]

(***************************************************************************)
(* updateSingleOrb                                                         *)
(***************************************************************************)
\* Lines 1907-1913: wobble phases advance, the plane eases to its target
\* and is renormalized.
AdvancePhasesAndPlane(o, dt) ==
    [o EXCEPT
        !.wobblePhaseA = o.wobblePhaseA + Mul(dt, 2600),
        !.wobblePhaseB = o.wobblePhaseB + Mul(dt, 3700),
        !.planeNormal = NormalizeVec3(
            LerpVec3(o.planeNormal, o.targetPlaneNormal, Min(1000, Mul(dt, 1800))))]

\* Lines 1918-1925: the mid-hover teleport, when it is due.
TeleportDueAnytime(o) == o.teleportPlanned /\ ~o.teleportDone
TeleportDueWhilePositive(o) ==
    /\ o.teleportPlanned /\ ~o.teleportDone
    /\ o.pauseTimer <= Mul(o.pauseDuration, 400)
    /\ o.pauseTimer > 0
TeleportDue(o) ==
    o.teleportPlanned /\ ~o.teleportDone /\ o.pauseTimer <= Mul(o.pauseDuration, 400)

\* Line 1927: the hover is over.
PauseOverNever(o) == FALSE
PauseOver(o) == o.pauseTimer <= 0

\* Lines 1915-1930: the Paused branch.  The result is a set: one element per
\* outcome of the random draws the branch makes.
PausedStepSet(o0, dt, R) ==
    LET o == [o0 EXCEPT !.pauseTimer = o0.pauseTimer - dt]
        afterTeleport ==
            IF TeleportDue(o)
            THEN {[PerformTeleport(o, d) EXCEPT !.teleportDone = TRUE, !.teleported = TRUE]
                  : d \in TeleportDraws(R.teleport)}
            ELSE {o}
    IN  UNION {
            LET q == [t EXCEPT !.angularSpeed =
                        t.angularSpeed + Mul(0 - t.angularSpeed, Min(1000, Mul(dt, 6000)))]
            IN  IF PauseOver(q)
                THEN PickNewFlightSegmentSet([q EXCEPT !.isPaused = FALSE], FALSE, R.segment)
                ELSE {q}
            : t \in afterTeleport}

\* Lines 1942-1948: the segment ends in a hover.
BeginPause(o, d) ==
    LET duration == RandomRange(d.pauseDuration, 350, 900)
    IN  [o EXCEPT
            !.isPaused = TRUE,
            !.pauseDuration = duration,
            !.pauseTimer = duration,
            !.teleportPlanned = (d.teleportPlanned < 450),
            !.teleportDone = FALSE,
            !.segmentTime = 0]

\* Lines 1931-1953: the Cruising branch.
CruisingStepSet(o, dt, R) ==
    LET speedJitter == 1000 + Mul(350, Sin(Mul(o.wobblePhaseA, 700)))
        targetSpeed == Mul(o.targetAngularSpeed, speedJitter)
        speed == o.angularSpeed + Mul(targetSpeed - o.angularSpeed, Min(1000, Mul(dt, 3500)))
        q == [o EXCEPT
                !.angularSpeed = speed,
                !.angle = o.angle + o.direction * Mul(speed, dt),
                !.radius = o.radius + Mul(o.targetRadius - o.radius, Min(1000, Mul(dt, 2200))),
                !.height = o.height + Mul(o.targetHeight - o.height, Min(1000, Mul(dt, 2200))),
                !.segmentTime = o.segmentTime + dt]
    IN  IF q.segmentTime >= q.segmentDuration
        THEN UNION {
                IF p < 300
                THEN {BeginPause(q, d) :
                        d \in [pauseDuration : R.pauseDuration,
                               teleportPlanned : R.teleportPlanned]}
                ELSE PickNewFlightSegmentSet(q, FALSE, R.segment)
                : p \in R.pause}
        ELSE {q}

\* Lines 1955-1972: wobble and the safety clamps.
RadialWobble(o) == Mul(Sin(o.wobblePhaseA), 80) + Mul(Sin(o.wobblePhaseB + 1100), 50)
VerticalWobble(o) ==
    Mul(Sin(Mul(o.wobblePhaseA, 1300) + 400), 50)
    + Mul(Sin(Mul(o.wobblePhaseB, 600) + 1100), 35)

RenderRadius(o) == ClampOrbit(o.radius + RadialWobble(o), ORBIT_MIN_RADIUS, ORBIT_MAX_RADIUS)

RenderHeightUnclamped(o) == o.height + VerticalWobble(o)
RenderHeight(o) == ClampOrbit(o.height + VerticalWobble(o), ORBIT_MIN_HEIGHT, ORBIT_MAX_HEIGHT)

ApplyWobble(o) ==
    [o EXCEPT !.renderRadius = RenderRadius(o), !.renderHeight = RenderHeight(o)]

\* Lines 1986-1998: the interpolated points from `last` to p, p included.
MaxGap == 45
InterpolatedPointsSingle(last, p, dist) == <<p>>
InterpolatedPoints(last, p, dist) ==
    LET steps == Max(1, (dist + MaxGap - 1) \div MaxGap)
    IN  AsSeq([i \in 1..steps |->
            LET t == (i * 1000) \div steps
            IN  <<last[1] + Mul(p[1] - last[1], t),
                  last[2] + Mul(p[2] - last[2], t),
                  last[3] + Mul(p[3] - last[3], t)>>])

\* Line 2000: while (trail.length > trailMax) trail.shift().
EvictFrontNever(trail, trailMax) == trail
EvictFront(trail, trailMax) ==
    IF Len(trail) > trailMax
    THEN SubSeq(trail, Len(trail) - trailMax + 1, Len(trail))
    ELSE trail

\* Line 1983: the trail records a break, not an interpolation.
TrailBreakByDistanceOnly(o, dist) == dist > TELEPORT_BREAK_DIST
TrailBreak(o, dist) == o.skipTrailInterpolation \/ dist > TELEPORT_BREAK_DIST

\* Lines 1974-2001: the trail bookkeeping of updateSingleOrb.
UpdateTrail(o) ==
    LET trail == o.trailPositions
        Stored(last, added, kept, jump) ==
            [o EXCEPT
                !.trailPositions = kept,
                !.skipTrailInterpolation = IF jump THEN FALSE ELSE @,
                !.appended = Len(added),
                !.evicted = Len(trail) + Len(added) - Len(kept),
                !.prevLast = last]
        Pushed(last, added, jump) ==
            Stored(last, added, EvictFront(trail \o added, o.trailMax), jump)
        Measured(p, last, dist) ==
            IF TrailBreak(o, dist)
            THEN Pushed(last, <<p>>, TRUE)
            ELSE Pushed(last, InterpolatedPoints(last, p, dist), FALSE)
        From(p, last) == Measured(p, last, Distance(last, p))
        At(p) == From(p, IF Len(trail) > 0 THEN trail[Len(trail)] ELSE p)
    IN  At(CurrentOrbiterPosition(o))

\* updateSingleOrb(orbState, dt): every outcome of one call.
UpdateSingleOrbSet(o0, dt, R) ==
    LET o == AdvancePhasesAndPlane([o0 EXCEPT !.teleported = FALSE], dt)
        moved == IF o.isPaused THEN PausedStepSet(o, dt, R) ELSE CruisingStepSet(o, dt, R)
    IN  {UpdateTrail(ApplyWobble(q)) : q \in moved}

(***************************************************************************)
(* Chasers                                                                 *)
(***************************************************************************)
\* orbStates.find((o) => o.id === id): the index of the first match, or 0.
FindIndexOrLast(states, id) ==
    IF \E i \in 1..Len(states) : states[i].id = id
    THEN CHOOSE i \in 1..Len(states) : states[i].id = id
    ELSE Len(states)
FindIndex(states, id) ==
    IF \E i \in 1..Len(states) : states[i].id = id
    THEN CHOOSE i \in 1..Len(states) :
            /\ states[i].id = id
            /\ \A k \in 1..(i - 1) : states[k].id # id
    ELSE 0

\* Math.floor(Math.random() * n) for the draw r.
RandomIndex(r, n) == (r * n) \div 1000

\* assignTargetFor(orb), orb = states[i], for the draw r.
AssignTargetForAnyone(states, i, r) ==
    [states EXCEPT
        ![i].targetId = states[RandomIndex(r, Len(states)) + 1].id,
        ![i].targetAngularSpeed = Max(states[i].targetAngularSpeed, 1100)]
AssignTargetFor(states, i, r) ==
    LET orb == states[i]
        targets == SelectSeq(states, LAMBDA o : o.id # orb.id)
    IN  IF Len(targets) = 0
        THEN [states EXCEPT ![i].targetId = NoTarget]
        ELSE [states EXCEPT
                ![i].targetId = targets[RandomIndex(r, Len(targets)) + 1].id,
                ![i].targetAngularSpeed = Max(orb.targetAngularSpeed, 1100)]

AssignTargetForSet(states, i, R) ==
    {AssignTargetFor(states, i, r) : r \in R.targetIdx}

\* indices.splice(idx, 1): the sequence without its element at position k.
RemoveAt(seq, k) == SubSeq(seq, 1, k - 1) \o SubSeq(seq, k + 1, Len(seq))

\* The loop of assignChasers (lines 2015-2021): `left` chasers still to pick
\* among the positions `indices`.
RECURSIVE PickChasersSet(_, _, _, _)
PickChasersSet(states, indices, left, R) ==
    IF left = 0 THEN {states}
    ELSE UNION {
            LET k == RandomIndex(r, Len(indices)) + 1
                orbIdx == indices[k]
                marked == [states EXCEPT ![orbIdx].isChaser = TRUE]
            IN  UNION {PickChasersSet(t, RemoveAt(indices, k), left - 1, R)
                       : t \in AssignTargetForSet(marked, orbIdx, R)}
            : r \in R.chaserIdx}

\* assignChasers().
AssignChasersKeepingSet(states, R) ==
    IF Len(states) < 2 THEN {states}
    ELSE PickChasersSet(states, AsSeq([i \in 1..Len(states) |-> i]),
                        Max(1, (Len(states) * 3) \div 10), R)
AssignChasersSet(states, R) ==
    IF Len(states) < 2 THEN {states}
    ELSE LET cleared == AsSeq([i \in 1..Len(states) |->
                            [states[i] EXCEPT !.isChaser = FALSE, !.targetId = NoTarget]])
             chaserCount == Max(1, (Len(states) * 3) \div 10)
         IN  PickChasersSet(cleared, AsSeq([i \in 1..Len(states) |-> i]), chaserCount, R)

\* steerChaser(orb), orb = states[i].
SteerChaser(states, i) ==
    LET orb == states[i]
        k == FindIndex(states, orb.targetId)
        Steered(desired, len) ==
            IF 10 * len < 1 THEN states   \* len < 1e-4
            ELSE [states EXCEPT
                    ![i].targetPlaneNormal = DivideByLength(desired),
                    ![i].targetAngularSpeed = Max(orb.targetAngularSpeed, 1300)]
        Toward(desired) == Steered(desired, Length(desired))
    IN  IF k = 0 THEN states
        ELSE Toward(Cross(CurrentOrbiterPosition(orb), CurrentOrbiterPosition(states[k])))

(***************************************************************************)
(* Collisions                                                              *)
(***************************************************************************)
MinCollisionDistance == 180

\* The body of the two loops of resolveOrbCollisions for the pair (i, j):
\* the new entity list and the distance the pair was found at.
AngleKickSameSign(o, sign) == o.angle + 200
AngleKick(o, sign) == o.angle + sign * 200

CollidePair(states, i, j) ==
    LET Bounced(overlap) ==
            [states EXCEPT
                ![i].renderRadius = @ + Mul(overlap, 50),
                ![j].renderRadius = @ + Mul(overlap, 50),
                ![i].direction = -@,
                ![j].direction = -@,
                ![i].angle = AngleKick(states[i], 1),
                ![j].angle = AngleKick(states[j], -1)]
        Response(dist) ==
            IF dist > 0 /\ dist < MinCollisionDistance
            THEN Bounced(Mul(MinCollisionDistance - dist, 500))
            ELSE states
    IN  Response(Distance(CurrentOrbiterPosition(states[i]),
                          CurrentOrbiterPosition(states[j])))

PairDistance(states, i, j) ==
    Distance(CurrentOrbiterPosition(states[i]), CurrentOrbiterPosition(states[j]))

\* The fields of an entity the collision response writes.
Touched(o) == [direction |-> o.direction, angle |-> o.angle, renderRadius |-> o.renderRadius]

\* Whether two entity records differ at most in those fields.
SameElsewhere(o, q) ==
    q = [o EXCEPT !.direction = q.direction, !.angle = q.angle,
                  !.renderRadius = q.renderRadius]

\* The pairs (i, j), i < j, in the order the two loops visit them.
RECURSIVE PairsFrom(_, _)
PairsFrom(i, n) ==
    IF i >= n THEN << >>
    ELSE AsSeq([k \in 1..(n - i) |-> <<i, i + k>>]) \o PairsFrom(i + 1, n)

\* One visit: the inner loop's condition j < orbStates.length, then the
\* pair's response applied to acc.orbs, and the visit logged.
VisitPair(acc, pair) ==
    LET i == pair[1]
        j == pair[2]
        Logged(after) ==
            [orbs |-> after,
             log |-> Append(acc.log,
                [i |-> i, j |-> j, dist |-> PairDistance(acc.orbs, i, j),
                 beforeA |-> Touched(acc.orbs[i]), beforeB |-> Touched(acc.orbs[j]),
                 afterA |-> Touched(after[i]), afterB |-> Touched(after[j]),
                 restSame |-> /\ SameElsewhere(acc.orbs[i], after[i])
                              /\ SameElsewhere(acc.orbs[j], after[j])
                              /\ \A k \in 1..Len(after) :
                                    k \notin {i, j} => after[k] = acc.orbs[k]])]
    IN  Logged(CollidePair(acc.orbs, i, j))

\* The visits lo..hi of `pairs`, in order (split in halves to keep the
\* evaluation shallow).
RECURSIVE VisitRange(_, _, _, _)
VisitRange(acc, pairs, lo, hi) ==
    IF lo > hi THEN acc
    ELSE IF lo = hi THEN VisitPair(acc, pairs[lo])
    ELSE LET mid == (lo + hi) \div 2
             left == VisitRange(acc, pairs, lo, mid)
         IN  IF Len(left.orbs) = 0 THEN left
             ELSE VisitRange(left, pairs, mid + 1, hi)

\* resolveOrbCollisions(): the entities after the pass, and the log of the
\* pairs visited (an observation, not program state).
ResolveOrbCollisions(states) ==
    LET pairs == PairsFrom(1, Len(states))
    IN  VisitRange([orbs |-> states, log |-> << >>], pairs, 1, Len(pairs))

(***************************************************************************)
(* updateOrbiters, decayRetiredTrails                                      *)
(***************************************************************************)
\* The loop of updateOrbiters from entity i on: updateSingleOrb, then
\* steerChaser when the entity is a chaser with a target.
RECURSIVE UpdateFromSet(_, _, _, _)
UpdateFromSet(states, i, dt, R) ==
    IF i > Len(states) THEN {states}
    ELSE UNION {
            LET s1 == [states EXCEPT ![i] = o]
                s2 == IF o.isChaser /\ o.targetId # NoTarget THEN SteerChaser(s1, i) ELSE s1
            IN  UpdateFromSet(s2, i + 1, dt, R)
            : o \in UpdateSingleOrbSet(states[i], dt, R)}

\* updateOrbiters(dt): every outcome, each with its collision log.
UpdateOrbitersSet(states, dt, R) ==
    {ResolveOrbCollisions(s) : s \in UpdateFromSet(states, 1, dt, R)}

\* decayRetiredTrails(dt).  `elapsed` is an observation: the sum of dt over
\* the ticks the trail has been through.
DecayKeepsAtZero(r) == r.fade < 0
DecayDiscards(r) == r.fade <= 0

\* Line 1901: r.alphaScale = Math.max(0, r.fade / 1.2).
RetiredAlphaStale(r) == r.alphaScale
RetiredAlpha(r) == Max(0, Div(r.fade, 1200))

DecayRetiredTrails(trails, dt) ==
    LET aged == AsSeq([i \in 1..Len(trails) |->
                    [trails[i] EXCEPT !.fade = @ - dt, !.elapsed = @ + dt]])
        kept == SelectSeq(aged, LAMBDA r : ~DecayDiscards(r))
    IN  AsSeq([i \in 1..Len(kept) |->
            [kept[i] EXCEPT !.alphaScale = RetiredAlpha(kept[i])]])

(***************************************************************************)
(* Population: initOrbiters, setOrbCount, setOrbChaser                     *)
(***************************************************************************)
MinOrbCount == 1
MaxOrbCount == 20

\* The creation loops of initOrbiters (1871-1878) and setOrbCount (512-519):
\* toAdd entities appended, ids taken from the counter.  Each element is the
\* pair of the new entity list and the new counter.
\* Line 52: id: orbIdCounter++ yields the counter's value.
IssueIdByPosition(states, idCounter) == Len(states) + 1
IssueId(states, idCounter) == idCounter

RECURSIVE AppendNewOrbsSet(_, _, _, _)
AppendNewOrbsSet(states, idCounter, toAdd, R) ==
    IF toAdd = 0 THEN {[orbs |-> states, idCounter |-> idCounter]}
    ELSE UNION {AppendNewOrbsSet(Append(states, o), idCounter + 1, toAdd - 1, R)
                : o \in SeedOrbSet(IssueId(states, idCounter), R)}

\* initOrbiters(gl), lines 1869-1879.
InitOrbitersDefaultSet(count, idCounter, R) ==
    UNION {{[orbs |-> t, idCounter |-> c.idCounter] : t \in AssignChasersSet(c.orbs, R)}
           : c \in AppendNewOrbsSet(<< >>, idCounter, 3, R)}
InitOrbitersSet(count, idCounter, R) ==
    UNION {{[orbs |-> t, idCounter |-> c.idCounter] : t \in AssignChasersSet(c.orbs, R)}
           : c \in AppendNewOrbsSet(<< >>, idCounter, count, R)}

\* The entry setOrbCount pushes for a removed entity (lines 526-534).
RetiredTrailOfFaded(removed) ==
    [trailPositions |-> removed.trailPositions,
     size |-> OrbSize,
     alphaScale |-> 0,
     fade |-> RetiredFade,
     color |-> IF removed.isChaser THEN "chaser" ELSE "plain",
     fromId |-> removed.id,
     elapsed |-> 0]
RetiredTrailOf(removed) ==
    [trailPositions |-> removed.trailPositions,
     size |-> OrbSize,
     alphaScale |-> 1000,
     fade |-> RetiredFade,
     color |-> IF removed.isChaser THEN "chaser" ELSE "plain",
     \* observations: whose trail it was, time spent in decayRetiredTrails
     fromId |-> removed.id,
     elapsed |-> 0]

\* The while loop of lines 522-536.
PopOnce(states, trails, next) ==
    [orbs |-> SubSeq(states, 1, Len(states) - 1),
     retired |-> Append(trails, RetiredTrailOf(states[Len(states)]))]
RECURSIVE PopToCount(_, _, _)
PopToCount(states, trails, next) ==
    IF Len(states) <= next THEN [orbs |-> states, retired |-> trails]
    ELSE LET removed == states[Len(states)]
             rest == SubSeq(states, 1, Len(states) - 1)
         IN  IF Len(removed.trailPositions) > 0
             THEN PopToCount(rest, Append(trails, RetiredTrailOf(removed)), next)
             ELSE PopToCount(rest, trails, next)

\* Math.max(1, Math.min(20, Math.floor(count || 1))) for an integer count.
ClampCountNoUpper(count) == Max(MinOrbCount, IF count = 0 THEN 1 ELSE count)
ClampCount(count) == Max(MinOrbCount, Min(MaxOrbCount, IF count = 0 THEN 1 ELSE count))

\* Line 510: next > orbStates.length, the test of the creation branch.
CountGrowsOrStays(next, len) == next >= len
CountGrows(next, len) == next > len

\* setOrbCount(count): every outcome, as the new values of the four
\* variables it can write.
SetOrbCountSet(count, R) ==
    LET next == ClampCount(count)
        same == [orbs |-> orbStates, retired |-> retiredTrails,
                 idCounter |-> orbIdCounter, count |-> next]
    IN  IF ~glRef THEN {same}
        ELSE IF Len(orbStates) = 0
        THEN {[same EXCEPT !.orbs = c.orbs, !.idCounter = c.idCounter]
              : c \in InitOrbitersSet(next, orbIdCounter, R)}
        ELSE IF CountGrows(next, Len(orbStates))
        THEN UNION {{[same EXCEPT !.orbs = t, !.idCounter = c.idCounter]
                     : t \in AssignChasersSet(c.orbs, R)}
                    : c \in AppendNewOrbsSet(orbStates, orbIdCounter,
                                             next - Len(orbStates), R)}
        ELSE IF next < Len(orbStates)
        THEN LET popped == PopToCount(orbStates, retiredTrails, next)
             IN  {[same EXCEPT !.orbs = popped.orbs, !.retired = popped.retired]}
        ELSE {same}

\* getOrbCount().
GetOrbCount == orbCount

\* getOrbiters(): id and isChaser of every live entity, in order (the name
\* is "Orb <id>").
GetOrbiters == AsSeq([i \in 1..Len(orbStates) |->
                    [id |-> orbStates[i].id, isChaser |-> orbStates[i].isChaser]])

\* setOrbChaser(id, isChaser).
SetOrbChaserSet(id, isChaser, R) ==
    LET i == FindIndex(orbStates, id)
    IN  IF i = 0 THEN {orbStates}
        ELSE IF isChaser
        THEN AssignTargetForSet([orbStates EXCEPT ![i].isChaser = TRUE], i, R)
        ELSE {[orbStates EXCEPT ![i].isChaser = FALSE, ![i].targetId = NoTarget]}

(***************************************************************************)
(* Operations                                                              *)
(***************************************************************************)
HistoryInit ==
    [op |-> "load", arg |-> 0, flag |-> FALSE, dt |-> 0, log |-> << >>,
     ticks |-> 0, events |-> 0, calls |-> 0]

Note(op, arg, flag, dt, log, kind) ==
    [op |-> op, arg |-> arg, flag |-> flag, dt |-> dt, log |-> log,
     ticks |-> history.ticks + (IF kind = "tick" THEN 1 ELSE 0),
     events |-> history.events + (IF kind = "event" THEN 1 ELSE 0),
     calls |-> history.calls + (IF kind = "call" THEN 1 ELSE 0)]

\* The module-level state when scene.js has been loaded.
Init ==
    /\ camera = CameraInit
    /\ cameraInput = CameraInputInit
    /\ glRef = FALSE
    /\ orbStates = << >>
    /\ orbCount = 3
    /\ retiredTrails = << >>
    /\ orbIdCounter = 1
    /\ history = HistoryInit

\* initScene(gl): registers the input handlers and seeds the population.
InitScene(R) ==
    /\ ~glRef
    /\ glRef' = TRUE
    /\ \E c \in InitOrbitersSet(orbCount, orbIdCounter, R) :
        /\ orbStates' = c.orbs
        /\ orbIdCounter' = c.idCounter
    /\ history' = Note("initScene", 0, FALSE, 0, << >>, "init")
    /\ UNCHANGED <<camera, cameraInput, orbCount, retiredTrails>>

\* updateScene(gl, dt): one frame.
UpdateScene(dt, R) ==
    /\ glRef
    /\ camera' = CameraKeyboardApplied(camera, cameraInput, dt)
    /\ \E out \in UpdateOrbitersSet(orbStates, dt, R) :
        /\ orbStates' = out.orbs
        /\ history' = Note("updateScene", 0, FALSE, dt, out.log, "tick")
    /\ retiredTrails' = DecayRetiredTrails(retiredTrails, dt)
    /\ UNCHANGED <<cameraInput, glRef, orbCount, orbIdCounter>>

SetOrbCount(count, R) ==
    /\ \E c \in SetOrbCountSet(count, R) :
        /\ orbStates' = c.orbs
        /\ retiredTrails' = c.retired
        /\ orbIdCounter' = c.idCounter
        /\ orbCount' = c.count
    /\ history' = Note("setOrbCount", count, FALSE, 0, << >>, "call")
    /\ UNCHANGED <<camera, cameraInput, glRef>>

SetOrbChaser(id, isChaser, R) ==
    /\ orbStates' \in SetOrbChaserSet(id, isChaser, R)
    /\ history' = Note("setOrbChaser", id, isChaser, 0, << >>, "call")
    /\ UNCHANGED <<camera, cameraInput, glRef, orbCount, retiredTrails, orbIdCounter>>

SetCameraState(arg) ==
    /\ camera' = CameraStateSet(camera, arg)
    /\ history' = Note("setCameraState", IF arg.hasPhi THEN arg.phi ELSE 0, arg.hasPhi,
                       0, << >>, "event")
    /\ UNCHANGED <<cameraInput, glRef, orbStates, orbCount, retiredTrails, orbIdCounter>>

\* The listeners setupOrbitControls registers; they exist once initScene ran.
CameraEvent(op, cam, input) ==
    /\ glRef
    /\ camera' = cam
    /\ cameraInput' = input
    /\ history' = Note(op, 0, FALSE, 0, << >>, "event")
    /\ UNCHANGED orbVars

HandleMouseDown(ev) ==
    CameraEvent("mousedown",
                [camera EXCEPT !.isDragging = TRUE, !.lastMouseX = ev.clientX,
                               !.lastMouseY = ev.clientY],
                cameraInput)
HandleMouseUp ==
    CameraEvent("mouseup", [camera EXCEPT !.isDragging = FALSE], cameraInput)
HandleMouseMove(ev) == CameraEvent("mousemove", MouseMoved(camera, ev), cameraInput)
HandleWheel(deltaY) == CameraEvent("wheel", Wheeled(camera, deltaY), cameraInput)
HandleKeyDown(key) == CameraEvent("keydown", camera, SetKey(cameraInput, key, TRUE))
HandleKeyUp(key) == CameraEvent("keyup", camera, SetKey(cameraInput, key, FALSE))

(***************************************************************************)
(* Random domains: for every place that calls Math.random(), the values    *)
(* a specification explores there.                                         *)
(***************************************************************************)
SegmentFixed ==
    [flip |-> {0}, segmentDuration |-> {0}, speed |-> {500}, radius |-> {999},
     anywhere |-> {500}, lift |-> {0}, newPlane |-> {0}, unitVec |-> {<<500, 250>>}]

TeleportFixed ==
    [unitVec |-> {<<250, 750>>}, angle |-> {250}, radius |-> {999}, height |-> {999}]

\* One value per draw: a single run of the random generator.
RandFixed ==
    [create |-> [angle |-> {0}, direction |-> {0}, wobbleA |-> {0}, wobbleB |-> {722},
                 unitVec |-> {<<500, 0>>}],
     createSegment |-> SegmentFixed,
     segment |-> SegmentFixed,
     pause |-> {0},
     pauseDuration |-> {0},
     teleportPlanned |-> {0},
     teleport |-> TeleportFixed,
     chaserIdx |-> {0},
     targetIdx |-> {0}]

\* Entities born at the same place or close together.
RandMain == [RandFixed EXCEPT !.create.angle = {0, 10}]

(***************************************************************************)
(* Specifications                                                          *)
(***************************************************************************)
\* Bounds of the explorations: frames and API calls.
MaxTicks == 3
MaxCalls == 1

DtMain == {278, 600}

\* Frames over a population of three entities that may collide.
Next ==
    \/ InitScene(RandMain)
    \/ history.ticks < MaxTicks /\ \E dt \in DtMain : UpdateScene(dt, RandMain)
    \/ history.calls < MaxCalls /\ \E id \in {2, 7}, b \in BOOLEAN : SetOrbChaser(id, b, RandMain)

Spec == Init /\ [][Next]_vars

\* Camera input: events, held keys and frames.
MaxEvents == 3
MaxCamTicks == 2

DtCamera == {0, 1000}

CameraArgs ==
    {[hasTheta |-> FALSE, theta |-> 0, hasPhi |-> TRUE, phi |-> 10000,
      hasRadius |-> FALSE, radius |-> 0],
     [hasTheta |-> TRUE, theta |-> 7000, hasPhi |-> TRUE, phi |-> -2000,
      hasRadius |-> TRUE, radius |-> 100000],
     [hasTheta |-> FALSE, theta |-> 0, hasPhi |-> FALSE, phi |-> 0,
      hasRadius |-> TRUE, radius |-> 0]}

MouseEvents ==
    [movementX : {40}, movementY : {-1000, 1000}, clientX : {320}, clientY : {240}]

WheelDeltas == {-3000, 3000}

Keys == {"s", "ArrowUp", "q", "e", "x"}

NextCamera ==
    \/ InitScene(RandFixed)
    \/ history.ticks < MaxCamTicks /\ \E dt \in DtCamera : UpdateScene(dt, RandFixed)
    \/ history.events < MaxEvents /\ \E arg \in CameraArgs : SetCameraState(arg)
    \/ history.events < MaxEvents /\ \E ev \in MouseEvents : HandleMouseDown(ev)
    \/ history.events < MaxEvents /\ HandleMouseUp
    \/ history.events < MaxEvents /\ \E ev \in MouseEvents : HandleMouseMove(ev)
    \/ history.events < MaxEvents /\ \E deltaY \in WheelDeltas : HandleWheel(deltaY)
    \/ history.events < MaxEvents /\ \E key \in Keys : HandleKeyDown(key)
    \/ history.events < MaxEvents /\ \E key \in Keys : HandleKeyUp(key)

SpecCamera == Init /\ [][NextCamera]_vars

\* Population changes around frames: shrinking and growing a population of
\* three, retagging an entity, and the frames that age the retired trails.
MaxPopCalls == 2
MaxPopTicks == 3

DtPopulation == {600, 700}

PopulationRequests == {1, 2, 4}

ChaserIds == {2}

\* The chaser picks its first or its last candidate as target.
RandPopulation == [RandFixed EXCEPT !.targetIdx = {0, 999}]

NextPopulation ==
    \/ InitScene(RandPopulation)
    \/ history.ticks < MaxPopTicks /\ \E dt \in DtPopulation : UpdateScene(dt, RandPopulation)
    \/ history.calls < MaxPopCalls
        /\ \E n \in PopulationRequests : SetOrbCount(n, RandPopulation)
    \/ history.calls < MaxPopCalls
        /\ \E id \in ChaserIds, b \in BOOLEAN : SetOrbChaser(id, b, RandPopulation)

SpecPopulation == Init /\ [][NextPopulation]_vars

\* Flight of a few entities through segment ends, hovers and teleports.
\* The entities are created on a plane whose first target is the opposite
\* plane, and fly toward the lowest heights.
MaxFlightTicks == 4
MaxFlightCalls == 1

DtFlight == {278, 600}

FlightRequests == {1, 2, 4}

SegmentLow == [SegmentFixed EXCEPT !.anywhere = {0}]

RandFlight ==
    [RandFixed EXCEPT
        !.createSegment = [SegmentLow EXCEPT !.unitVec = {<<500, 500>>}],
        !.segment = SegmentLow,
        !.teleportPlanned = {0, 999}]

NextFlight ==
    \/ InitScene(RandFlight)
    \/ history.ticks < MaxFlightTicks /\ \E dt \in DtFlight : UpdateScene(dt, RandFlight)
    \/ history.calls < MaxFlightCalls /\ \E n \in FlightRequests : SetOrbCount(n, RandFlight)

SpecFlight == Init /\ [][NextFlight]_vars

\* Long flights: enough frames for a trail to fill up, with one population
\* change anywhere along the way.
MaxTrailTicks == 30
MaxTrailCalls == 1

DtTrail == {100}

TrailRequests == {1, 2, 4}

RandTrail ==
    [RandFixed EXCEPT
        !.createSegment = [SegmentFixed EXCEPT !.speed = {999}],
        !.segment = [SegmentFixed EXCEPT !.speed = {999}],
        !.pause = {999}]

NextTrail ==
    \/ InitScene(RandTrail)
    \/ history.ticks < MaxTrailTicks /\ \E dt \in DtTrail : UpdateScene(dt, RandTrail)
    \/ history.calls < MaxTrailCalls /\ \E n \in TrailRequests : SetOrbCount(n, RandTrail)

SpecTrail == Init /\ [][NextTrail]_vars

\* Population requests of every size, before and after initScene.
MaxCountCalls == 2
MaxCountTicks == 1

DtCount == {600}

CountRequests == {-3, 0, 1, 2, 5, 20, 21, 25}

NextCount ==
    \/ InitScene(RandFixed)
    \/ history.ticks < MaxCountTicks /\ \E dt \in DtCount : UpdateScene(dt, RandFixed)
    \/ history.calls < MaxCountCalls /\ \E n \in CountRequests : SetOrbCount(n, RandFixed)

SpecCount == Init /\ [][NextCount]_vars

\* The chaser toggle of the UI and population requests, on populations of
\* one to seven entities; the toggled id may be live, retired or never
\* issued.
MaxChaserCalls == 2
MaxChaserTicks == 1

DtChaser == {278}

ChaserRequests == {1, 2, 7}

ToggleIds == {1, 3, 7}

RandChaser == [RandFixed EXCEPT !.chaserIdx = {0, 999}, !.targetIdx = {0, 999}]

NextChaser ==
    \/ InitScene(RandChaser)
    \/ history.ticks < MaxChaserTicks /\ \E dt \in DtChaser : UpdateScene(dt, RandChaser)
    \/ history.calls < MaxChaserCalls
        /\ \E n \in ChaserRequests : SetOrbCount(n, RandChaser)
    \/ history.calls < MaxChaserCalls
        /\ \E id \in ToggleIds, b \in BOOLEAN : SetOrbChaser(id, b, RandChaser)

SpecChaser == Init /\ [][NextChaser]_vars

\* Hovers: every segment ends in a long hover, with or without a planned
\* teleport; frames are shorter or longer than the hover.  Frames go on for
\* MaxHoverFrames more after the budget, the frames the longest hover
\* (0.9 s, line 1944) lasts at the shortest frame time.
MaxPauseTicks == 2

DtPause == {278, 1000}

MaxHoverFrames == 900 \div 278 + 1

RandPause == [RandFixed EXCEPT !.pauseDuration = {999}, !.teleportPlanned = {0, 999}]

PauseFrame ==
    /\ history.ticks < MaxPauseTicks + MaxHoverFrames
    /\ \E dt \in DtPause : UpdateScene(dt, RandPause)

NextPause ==
    \/ InitScene(RandPause)
    \/ PauseFrame

SpecPause == Init /\ [][NextPause]_vars

\* Population requests that repeat the count already there, between chaser
\* toggles: the spriteCount and chaserToggle handlers of main.js in any order.
MaxRepeatCalls == 2
MaxRepeatTicks == 1

RepeatRequests == {0, 1, 3, 4}

NextRepeat ==
    \/ InitScene(RandChaser)
    \/ history.ticks < MaxRepeatTicks /\ \E dt \in DtChaser : UpdateScene(dt, RandChaser)
    \/ history.calls < MaxRepeatCalls
        /\ \E n \in RepeatRequests : SetOrbCount(n, RandChaser)
    \/ history.calls < MaxRepeatCalls
        /\ \E id \in ToggleIds, b \in BOOLEAN : SetOrbChaser(id, b, RandChaser)

SpecRepeat == Init /\ [][NextRepeat]_vars

(***************************************************************************)
(* Claims                                                                  *)
(***************************************************************************)
Live == 1..Len(orbStates)

\* C2: every live entity's renderRadius lies within
\* [ORBIT_MIN_RADIUS, ORBIT_MAX_RADIUS] after every operation, including
\* ticks in which the collision resolver nudged the entity.
C2_RenderRadiusInBounds ==
    \A i \in Live :
        /\ orbStates[i].renderRadius >= ORBIT_MIN_RADIUS
        /\ orbStates[i].renderRadius <= ORBIT_MAX_RADIUS

\* C10: for every pair the collision resolver visits, a pair found at a
\* distance 0 < d < minCollisionDistance has both directions negated and its
\* angles changed by +0.2 and -0.2; any other pair is left unchanged.
C10_CollisionSymmetric ==
    \A k \in 1..Len(history.log) :
        LET e == history.log[k]
        IN  IF e.dist > 0 /\ e.dist < MinCollisionDistance
            THEN /\ e.afterA.direction = -e.beforeA.direction
                 /\ e.afterB.direction = -e.beforeB.direction
                 /\ e.afterA.angle - e.beforeA.angle = 200
                 /\ e.afterB.angle - e.beforeB.angle = -200
            ELSE e.afterA = e.beforeA /\ e.afterB = e.beforeB /\ e.restSame

\* A frame whose collision pass met a colliding pair, a pair at distance 0
\* and a pair beyond the collision distance.
C10_Witness ==
    /\ \E k \in 1..Len(history.log) :
        history.log[k].dist > 0 /\ history.log[k].dist < MinCollisionDistance
    /\ \E k \in 1..Len(history.log) : history.log[k].dist = 0
    /\ \E k \in 1..Len(history.log) : history.log[k].dist >= MinCollisionDistance

\* C1: camera.phi stays within [0.1, pi - 0.1] and camera.radius within
\* [minRadius, maxRadius] after every pointer drag, wheel event, frame with
\* held keys and setCameraState call; setCameraState({phi: 10}) stores
\* pi - 0.1.
C1_CameraClamped ==
    /\ camera.phi >= MinPhi
    /\ camera.phi <= MaxPhi
    /\ camera.radius >= CameraMinRadius
    /\ camera.radius <= CameraMaxRadius
    /\ (history.op = "setCameraState" /\ history.flag /\ history.arg = 10000
            => camera.phi = PI - 100)

\* setCameraState({phi: 10}) has just been applied.
C1_Witness ==
    /\ history.op = "setCameraState"
    /\ history.flag
    /\ history.arg = 10000
    /\ camera.phi = PI - 100

\* C6: right after setOrbCount(N), getOrbCount() returns N clamped to
\* [1, 20], whatever N was and whether or not the scene is initialised.
C6_CountRoundTrip ==
    history.op = "setOrbCount" =>
        GetOrbCount = (IF history.arg < 1 THEN 1
                       ELSE IF history.arg > 20 THEN 20 ELSE history.arg)

\* setOrbCount has just been called on an initialised scene with a request
\* above the range, and the population is the upper limit.
C6_Witness ==
    /\ history.op = "setOrbCount"
    /\ history.arg > 20
    /\ glRef
    /\ GetOrbCount = 20
    /\ Len(orbStates) = 20

\* C7: a setOrbCount step that shrinks the population from m to n entities
\* appends exactly m - n retired trails, one per removed entity in removal
\* order, each with that entity's trail, alphaScale 1 and fade 1.2, and
\* leaves the earlier retired trails alone; from 3, setOrbCount(1) leaves 1
\* entity and adds 2 retired trails.
C7_ShrinkRetires ==
    [][LET m == Len(orbStates)
           n == IF history'.arg < 1 THEN 1 ELSE history'.arg
           old == Len(retiredTrails)
       IN  (/\ history'.op = "setOrbCount"
            /\ history'.calls = history.calls + 1
            /\ glRef
            /\ m > 0
            /\ n < m)
           => /\ Len(orbStates') = n
              /\ orbStates' = SubSeq(orbStates, 1, n)
              /\ Len(retiredTrails') = old + (m - n)
              /\ SubSeq(retiredTrails', 1, old) = retiredTrails
              /\ \A k \in 1..(m - n) :
                    LET r == retiredTrails'[old + k]
                        removed == orbStates[m - k + 1]
                    IN  /\ r.trailPositions = removed.trailPositions
                        /\ r.fromId = removed.id
                        /\ r.alphaScale = 1000
                        /\ r.fade = 1200
              /\ (m = 3 /\ history'.arg = 1
                    => Len(orbStates') = 1 /\ Len(retiredTrails') = old + 2)
      ]_vars

\* setOrbCount(1) has just shrunk a population of three whose trails had
\* grown over a frame: one entity is left and two fresh retired trails hold
\* the removed entities' trails.
C7_Witness ==
    /\ history.op = "setOrbCount"
    /\ history.arg = 1
    /\ history.ticks > 0
    /\ Len(orbStates) = 1
    /\ Len(retiredTrails) = 2
    /\ \A k \in 1..2 :
        /\ retiredTrails[k].alphaScale = 1000
        /\ retiredTrails[k].fade = 1200
        /\ Len(retiredTrails[k].trailPositions) > 1
    /\ retiredTrails[1].fromId = 3
    /\ retiredTrails[2].fromId = 2

\* C8: over a frame of length dt, a retired trail stays exactly when the sum
\* of dt over the frames since it was created, this one included, is below
\* 1.2 s; no frame adds a retired trail, so a discarded trail stays absent.
C8_RetiredTrailLifetime ==
    [][history'.ticks = history.ticks + 1
        => /\ {r.fromId : r \in {retiredTrails'[k] : k \in 1..Len(retiredTrails')}}
                = {retiredTrails[k].fromId :
                     k \in {q \in 1..Len(retiredTrails) :
                              retiredTrails[q].elapsed + history'.dt < 1200}}
           /\ \A k \in 1..Len(retiredTrails') :
                \E q \in 1..Len(retiredTrails) :
                    /\ retiredTrails[q].fromId = retiredTrails'[k].fromId
                    /\ retiredTrails'[k].elapsed = retiredTrails[q].elapsed + history'.dt
      ]_vars

\* After a frame: the trail retired first has been discarded while the one
\* retired a frame later is still there, part of its time used up.
C8_Witness ==
    /\ history.op = "updateScene"
    /\ Len(orbStates) = 1
    /\ orbIdCounter = 4
    /\ Len(retiredTrails) = 1
    /\ retiredTrails[1].fromId = 2
    /\ retiredTrails[1].elapsed > 0
    /\ retiredTrails[1].elapsed < 1200

\* C9: every live chaser's targetId is cleared or the id of a live entity.
C9_ChaserTargetLive ==
    \A i \in Live :
        orbStates[i].isChaser =>
            \/ orbStates[i].targetId = NoTarget
            \/ \E j \in Live : orbStates[j].id = orbStates[i].targetId

\* C3: every live entity's renderHeight lies within
\* [ORBIT_MIN_HEIGHT, ORBIT_MAX_HEIGHT] after every operation.
C3_RenderHeightInBounds ==
    \A i \in Live :
        /\ orbStates[i].renderHeight >= -350
        /\ orbStates[i].renderHeight <= 750

\* After a frame in which an entity teleported, another entity's height plus
\* wobble is outside the band and its renderHeight sits on the limit.
C3_Witness ==
    /\ history.op = "updateScene"
    /\ \E i \in Live : orbStates[i].teleported
    /\ \E i \in Live :
        /\ orbStates[i].height + VerticalWobble(orbStates[i]) < -350
        /\ orbStates[i].renderHeight = -350

\* C4: every live entity's planeNormal has length 1 (to within 0.005) after
\* every operation.
C4_PlaneNormalUnit ==
    \A i \in Live : Abs(Length(orbStates[i].planeNormal) - 1000) <= 5

\* C5: every live entity's trail holds at most trailMax (220) points after
\* every operation.
C5_TrailBounded ==
    \A i \in Live : Len(orbStates[i].trailPositions) <= 220

\* After a frame in which an entity appended several interpolated points to
\* a nearly full trail and shifted the oldest ones out.
C5_Witness ==
    /\ history.op = "updateScene"
    /\ \E i \in Live :
        /\ orbStates[i].appended > 1
        /\ orbStates[i].evicted > 0
        /\ Len(orbStates[i].trailPositions) = 220

\* C11: in the tick in which an entity teleports, exactly one point is
\* appended to its trail, directly after the pre-teleport last point, and
\* skipTrailInterpolation is false again when the tick ends.
C11_TeleportRecordsJump ==
    history.op = "updateScene" =>
        \A i \in 1..Len(orbStates) :
            LET o == orbStates[i]
                n == Len(o.trailPositions)
            IN  o.teleported =>
                    /\ o.appended = 1
                    /\ ~o.skipTrailInterpolation
                    /\ n >= 2 => o.trailPositions[n - 1] = o.prevLast

C11_Witness ==
    /\ history.op = "updateScene"
    /\ \E i \in 1..Len(orbStates) :
            LET o == orbStates[i]
                n == Len(o.trailPositions)
            IN  /\ o.teleported
                /\ o.appended = 1
                /\ n >= 2
                /\ o.trailPositions[n - 1] = o.prevLast
                /\ Distance(o.prevLast, o.trailPositions[n]) > MaxGap
                /\ Distance(o.prevLast, o.trailPositions[n]) <= TELEPORT_BREAK_DIST
\* The points one updateSingleOrb call recorded for o: the previous last
\* point followed by the appended ones.
RecordedRun(o) ==
    LET n == Len(o.trailPositions)
    IN  <<o.prevLast>> \o SubSeq(o.trailPositions, n - o.appended + 1, n)

\* Consecutive points of the run are at most MaxGap apart, up to two units
\* of the fixed-point grid.
RunSpacingBounded(run) ==
    \A k \in 1..(Len(run) - 1) : Distance(run[k], run[k + 1]) <= MaxGap + 2

\* C12 as stated: in every tick in which the entity did not teleport,
\* whatever dt, consecutive trail points recorded by the tick are at most
\* the max gap apart.
C12_SpacingBoundedAnyDt ==
    history.op = "updateScene" =>
        \A i \in 1..Len(orbStates) :
            LET o == orbStates[i]
            IN  (~o.teleported /\ o.appended <= o.trailMax) =>
                    RunSpacingBounded(RecordedRun(o))

\* C12 amended: in every tick in which the entity did not teleport and
\* moved at most the teleport-break distance from its last trail point, the
\* consecutive trail points recorded by the tick are at most the max gap
\* apart; a longer move records the new position alone.
C12_SpacingBoundedBelowBreak ==
    history.op = "updateScene" =>
        \A i \in 1..Len(orbStates) :
            LET o == orbStates[i]
                run == RecordedRun(o)
            IN  (~o.teleported /\ o.appended <= o.trailMax) =>
                    IF Distance(run[1], run[Len(run)]) <= TELEPORT_BREAK_DIST
                    THEN RunSpacingBounded(run)
                    ELSE o.appended = 1

C12_Witness ==
    /\ history.op = "updateScene"
    /\ \E i, j \in 1..Len(orbStates) :
            LET o == orbStates[i]
                q == orbStates[j]
            IN  /\ ~o.teleported /\ o.appended >= 3
                /\ RunSpacingBounded(RecordedRun(o))
                /\ ~q.teleported /\ q.appended = 1
                /\ Distance(RecordedRun(q)[1], RecordedRun(q)[2]) > TELEPORT_BREAK_DIST
\* C13: live entities' ids are pairwise distinct, an entity keeps its id
\* for as long as it lives, and every newly created entity gets an id
\* strictly greater than every id issued before (ids of live entities, of
\* retired ones, and everything below the counter).
C13_IdsUniqueStableFresh ==
    [][ /\ \A i, j \in 1..Len(orbStates') :
              i # j => orbStates'[i].id # orbStates'[j].id
        /\ \A i \in 1..Min(Len(orbStates), Len(orbStates')) :
              orbStates'[i].id = orbStates[i].id
        /\ \A i \in (Len(orbStates) + 1)..Len(orbStates') :
              /\ orbStates'[i].id >= orbIdCounter
              /\ \A k \in 1..Len(orbStates) : orbStates'[i].id > orbStates[k].id
              /\ \A k \in 1..Len(retiredTrails) :
                    orbStates'[i].id > retiredTrails[k].fromId
              /\ \A k \in 1..(i - 1) : orbStates'[i].id > orbStates'[k].id
        /\ orbIdCounter' >= orbIdCounter
        /\ \A i \in 1..Len(orbStates') : orbStates'[i].id < orbIdCounter'
       ]_vars

\* A grow after a shrink: a live entity and a still-fading retired trail,
\* the live one created after the retired one, with a larger id.
C13_Witness ==
    /\ history.op = "setOrbCount"
    /\ Len(orbStates) >= 2
    /\ \E k \in 1..Len(retiredTrails) :
            /\ retiredTrails[k].fromId > orbStates[1].id
            /\ orbStates[Len(orbStates)].id > retiredTrails[k].fromId
\* C14: setOrbChaser(id, b) with an id that matches no live entity (never
\* issued, or of an entity removed by a shrink) changes nothing: not the
\* population, not any entity's isChaser or targetId, not the retired
\* trails.
C14_StaleIdNoOp ==
    [][(history'.op = "setOrbChaser"
            /\ \A i \in 1..Len(orbStates) : orbStates[i].id # history'.arg)
        => /\ orbStates' = orbStates
           /\ retiredTrails' = retiredTrails
           /\ orbCount' = orbCount
           /\ orbIdCounter' = orbIdCounter
      ]_vars

\* The toggle was switched on for the id of an entity a shrink removed,
\* whose trail is still fading, with entities alive.
C14_Witness ==
    /\ history.op = "setOrbChaser"
    /\ history.flag
    /\ Len(orbStates) >= 2
    /\ \A i \in 1..Len(orbStates) : orbStates[i].id # history.arg
    /\ \E k \in 1..Len(retiredTrails) : retiredTrails[k].fromId = history.arg
\* C15: setOrbChaser(id, TRUE) on a live entity sets isChaser and assigns a
\* target at once: the id of another live entity when the population is at
\* least 2, none when it is 1; setOrbChaser(id, FALSE) leaves isChaser
\* false and no target; no other entity's chaser flag or target changes.
C15_ToggleAssignsTarget ==
    [][history'.op = "setOrbChaser" =>
        \A i \in 1..Len(orbStates) :
            orbStates[i].id = history'.arg =>
                /\ Len(orbStates') = Len(orbStates)
                /\ orbStates'[i].id = orbStates[i].id
                /\ orbStates'[i].isChaser = history'.flag
                /\ IF history'.flag /\ Len(orbStates) >= 2
                   THEN \E j \in 1..Len(orbStates) :
                            j # i /\ orbStates'[i].targetId = orbStates[j].id
                   ELSE orbStates'[i].targetId = NoTarget
                /\ \A j \in 1..Len(orbStates) :
                      j # i => /\ orbStates'[j].isChaser = orbStates[j].isChaser
                               /\ orbStates'[j].targetId = orbStates[j].targetId
      ]_vars

\* The toggle was switched on for a live entity while another entity was
\* already a chaser.
C15_Witness ==
    /\ history.op = "setOrbChaser"
    /\ history.flag
    /\ \E i, j \in 1..Len(orbStates) :
            /\ i # j
            /\ orbStates[i].id = history.arg
            /\ orbStates[i].isChaser
            /\ orbStates[i].targetId # NoTarget
            /\ orbStates[j].isChaser
            /\ orbStates[j].targetId # NoTarget
\* C16: once initScene has run, after any setOrbCount calls and frames,
\* getOrbiters() holds one record per live entity in population order, its
\* length is getOrbCount(), and that length is within [1, 20].
C16_ListMatchesPopulation ==
    glRef =>
        /\ Len(GetOrbiters) = Len(orbStates)
        /\ Len(GetOrbiters) = GetOrbCount
        /\ Len(GetOrbiters) >= MinOrbCount
        /\ Len(GetOrbiters) <= MaxOrbCount
        /\ \A i \in 1..Len(orbStates) :
              /\ GetOrbiters[i].id = orbStates[i].id
              /\ GetOrbiters[i].isChaser = orbStates[i].isChaser
              /\ \A j \in 1..Len(orbStates) :
                    i < j => GetOrbiters[i].id < GetOrbiters[j].id

\* A frame on a population that was grown to the maximum and shrunk again.
C16_Witness ==
    /\ glRef
    /\ history.op = "updateScene"
    /\ Len(GetOrbiters) = 5
    /\ GetOrbCount = 5
    /\ orbIdCounter > MaxOrbCount
    /\ Len(retiredTrails) > 0
\* C17: a setOrbCount(n) call made before initScene creates no entity and
\* no retired trail and only records n clamped to [1, 20]; the initScene
\* that follows creates exactly that many entities.
C17_DeferredCount ==
    [][/\ (history'.op = "setOrbCount" /\ ~glRef) =>
            /\ orbStates' = << >>
            /\ retiredTrails' = << >>
            /\ orbIdCounter' = orbIdCounter
            /\ ~glRef'
            /\ orbCount' = (IF history'.arg < 1 THEN 1
                            ELSE IF history'.arg > 20 THEN 20 ELSE history'.arg)
       /\ (history'.op = "initScene" /\ history.op = "setOrbCount") =>
            /\ Len(orbStates') = (IF history.arg < 1 THEN 1
                                  ELSE IF history.arg > 20 THEN 20 ELSE history.arg)
            /\ orbCount' = Len(orbStates')
            /\ retiredTrails' = << >>
      ]_vars

\* initScene has just run after two requests, the last one for five
\* entities.
C17_Witness ==
    /\ history.op = "initScene"
    /\ history.calls = 2
    /\ glRef
    /\ Len(orbStates) = 5
    /\ orbCount = 5
\* C18: after a setOrbCount step that shrinks the population to n >= 2
\* survivors, chaser assignment has been re-run on them: exactly
\* max(1, floor(0.3 n)) survivors are chasers, each targeting another
\* survivor, and no other survivor keeps a target.
C18_ShrinkReassignsChasers ==
    [][(/\ history'.op = "setOrbCount"
        /\ Len(orbStates') < Len(orbStates)
        /\ Len(orbStates') >= 2)
        => LET n == Len(orbStates')
               chasers == {i \in 1..n : orbStates'[i].isChaser}
           IN  /\ Cardinality(chasers) = Max(1, (n * 3) \div 10)
               /\ \A i \in chasers :
                     \E j \in 1..n :
                        j # i /\ orbStates'[i].targetId = orbStates'[j].id
               /\ \A i \in (1..n) \ chasers : orbStates'[i].targetId = NoTarget
      ]_vars
\* C19: right after chaser assignment on n >= 2 entities (initScene, or a
\* setOrbCount step that grows the population), exactly
\* max(1, floor(0.3 n)) entities are chasers, each chaser's target is the
\* id of another live entity, and every other entity has no target,
\* whatever the chaser flags were before.
C19_AssignmentShare ==
    [][(/\ \/ history'.op = "initScene"
           \/ history'.op = "setOrbCount" /\ Len(orbStates') > Len(orbStates)
        /\ Len(orbStates') >= 2)
        => LET n == Len(orbStates')
               chasers == {i \in 1..n : orbStates'[i].isChaser}
           IN  /\ Cardinality(chasers) = Max(1, (n * 3) \div 10)
               /\ \A i \in chasers :
                     \E j \in 1..n :
                        j # i /\ orbStates'[i].targetId = orbStates'[j].id
               /\ \A i \in (1..n) \ chasers :
                     ~orbStates'[i].isChaser /\ orbStates'[i].targetId = NoTarget
      ]_vars

\* The population has just grown to seven after another call: two
\* chasers, and the first entity, which existed before, is not one.
C19_Witness ==
    /\ history.op = "setOrbCount"
    /\ history.calls = 2
    /\ glRef
    /\ Len(orbStates) = 7
    /\ Cardinality({i \in 1..7 : orbStates[i].isChaser}) = 2
    /\ ~orbStates[1].isChaser
    /\ orbStates[1].targetId = NoTarget
\* C20: for every pair a frame found colliding, at a distance d with
\* 0 < d < minDist, the renderRadius of each of the two entities grew by
\* half the overlap, (minDist - d) / 2 (up to one unit of rounding).
C20_NudgeHalfOverlap ==
    history.op = "updateScene" =>
        \A k \in 1..Len(history.log) :
            LET e == history.log[k]
                half == (MinCollisionDistance - e.dist) \div 2
            IN  (e.dist > 0 /\ e.dist < MinCollisionDistance) =>
                    /\ Abs(e.afterA.renderRadius - e.beforeA.renderRadius - half) <= 1
                    /\ Abs(e.afterB.renderRadius - e.beforeB.renderRadius - half) <= 1
\* The position updateSingleOrb computed for o in the latest frame: the
\* point it pushed last on the trail.
FramePosition(o) == o.trailPositions[Len(o.trailPositions)]

\* C21: within one frame a chaser is steered only after every entity has
\* been updated: the plane the chaser is sent to is spanned by its own and
\* its target's position of this frame, wherever the target stands in the
\* population order.
C21_SteerAfterAllUpdates ==
    history.op = "updateScene" =>
        \A i, k \in 1..Len(orbStates) :
            LET Aimed(desired) ==
                    \/ 10 * Length(desired) < 1
                    \/ orbStates[i].targetPlaneNormal = DivideByLength(desired)
            IN  (/\ orbStates[i].isChaser
                 /\ orbStates[i].targetId # NoTarget
                 /\ k = FindIndex(orbStates, orbStates[i].targetId))
                => Aimed(Cross(FramePosition(orbStates[i]), FramePosition(orbStates[k])))
\* C22: within one frame the trail is recorded after collision resolution:
\* the point the frame pushed last on an entity's trail is the entity's
\* position at the end of the frame, collision perturbations included.
C22_TrailAfterCollisions ==
    history.op = "updateScene" =>
        \A i \in 1..Len(orbStates) :
            FramePosition(orbStates[i]) = CurrentOrbiterPosition(orbStates[i])
\* C23: a teleport executes only in a frame the entity began Paused, with
\* a teleport planned and not yet done in this hover, and with the
\* remaining hover time down to 40% of the hover's duration; the plan does
\* not change during a hover, and once done the teleport is not repeated
\* while the hover lasts.
C23_TeleportOncePerPause ==
    [][history'.op = "updateScene" =>
        \A i \in 1..Len(orbStates) :
            LET o == orbStates[i]
                n == orbStates'[i]
            IN  /\ n.teleported =>
                    /\ o.isPaused
                    /\ o.teleportPlanned
                    /\ ~o.teleportDone
                    /\ 10 * (o.pauseTimer - history'.dt) <= 4 * o.pauseDuration
                /\ (n.teleported /\ n.isPaused) => n.teleportDone
                /\ (o.isPaused /\ n.isPaused) =>
                    /\ n.teleportPlanned = o.teleportPlanned
                    /\ o.teleportDone => n.teleportDone
      ]_vars

\* A hover with a planned teleport that has not executed yet, more than
\* 40% of the hover remaining; and one in which it has executed.
C23_Witness ==
    /\ history.op = "updateScene"
    /\ \E i \in 1..Len(orbStates) :
            LET o == orbStates[i]
            IN  /\ o.isPaused /\ o.teleportPlanned /\ o.teleportDone
                /\ o.teleported
                /\ o.pauseTimer > 0
                /\ o.pauseTimer + history.dt > Mul(o.pauseDuration, 400)
\* C24: a Paused entity leaves Paused exactly in the frame in which its
\* pause timer reaches <= 0, and is then Cruising on a fresh segment
\* (segment timer 0, teleportPlanned and teleportDone cleared); a Cruising
\* entity becomes Paused only in a frame in which its segment timer reached
\* segmentDuration; and while frames with dt > 0 keep coming, every Paused
\* entity is eventually Cruising again: in every behaviour in which the
\* frames of SpecPause all take place, each of the three entities, once
\* Paused within the frame budget, is Cruising again later.
C24_PauseLifecycle ==
    /\ [][history'.op = "updateScene" =>
            \A i \in 1..Len(orbStates) :
                LET o == orbStates[i]
                    n == orbStates'[i]
                IN  /\ o.isPaused =>
                        /\ n.isPaused <=> (o.pauseTimer - history'.dt > 0)
                        /\ ~n.isPaused =>
                            /\ n.segmentTime = 0
                            /\ ~n.teleportPlanned
                            /\ ~n.teleportDone
                    /\ (~o.isPaused /\ n.isPaused) =>
                        o.segmentTime + history'.dt >= o.segmentDuration
         ]_vars
    /\ <>(history.ticks = MaxPauseTicks + MaxHoverFrames) =>
        \A i \in 1..3 :
            (/\ i <= Len(orbStates)
             /\ orbStates[i].isPaused
             /\ history.ticks <= MaxPauseTicks)
            ~> (i <= Len(orbStates) /\ ~orbStates[i].isPaused)

\* An entity is Cruising again, on a fresh segment, in the frame that ended
\* its hover, several frames after the hover began.
C24_Witness ==
    /\ history.op = "updateScene"
    /\ history.ticks >= 4
    /\ \E i \in 1..Len(orbStates) :
            LET o == orbStates[i]
            IN  /\ ~o.isPaused
                /\ o.pauseTimer <= 0
                /\ o.pauseTimer + history.dt > 0
                /\ o.pauseDuration > 3 * history.dt
                /\ o.segmentTime = 0
\* C25: after every frame, every chaser whose target is a live entity has
\* a targetAngularSpeed of at least 1.1, the floor applied when a target
\* is assigned, also when the frame re-rolled its cruise segment.
C25_ChaserSpeedFloor ==
    history.op = "updateScene" =>
        \A i \in 1..Len(orbStates) :
            (/\ orbStates[i].isChaser
             /\ orbStates[i].targetId # NoTarget
             /\ FindIndex(orbStates, orbStates[i].targetId) # 0)
            => orbStates[i].targetAngularSpeed >= 1100
\* C26: held keys change theta, phi and radius by amounts scaled by the
\* frame's dt, zoom keys like rotation keys: a frame with dt = 0 leaves
\* theta, phi and radius as they were, whatever keys are held.
C26_KeyboardScaledByDt ==
    [][(history'.op = "updateScene" /\ history'.dt = 0) =>
            /\ camera'.theta = camera.theta
            /\ camera'.phi = camera.phi
            /\ camera'.radius = camera.radius
      ]_vars

\* C27: a retired trail has alphaScale 1 when setOrbCount creates it; after
\* every frame it survives its alphaScale is max(0, fade / 1.2), with 1.2 the
\* fade it was created with; and over a frame with dt >= 0 its alphaScale
\* does not increase.
C27_RetiredAlphaFollowsFade ==
    [][ /\ (history'.op = "setOrbCount" /\ history'.calls = history.calls + 1)
            => \A k \in (Len(retiredTrails) + 1)..Len(retiredTrails') :
                    /\ retiredTrails'[k].alphaScale = 1000
                    /\ retiredTrails'[k].fade = RetiredFade
        /\ (history'.ticks = history.ticks + 1 /\ history'.dt >= 0)
            => \A k \in 1..Len(retiredTrails') :
                    LET r == retiredTrails'[k]
                    IN  /\ r.alphaScale = Max(0, Div(r.fade, RetiredFade))
                        /\ r.fade = RetiredFade - r.elapsed
                        /\ \E q \in 1..Len(retiredTrails) :
                              /\ retiredTrails[q].fromId = r.fromId
                              /\ r.alphaScale <= retiredTrails[q].alphaScale
      ]_vars

\* A retired trail has been through three frames and is still there, its
\* alphaScale below what it was after one frame and still above 0.
C27_Witness ==
    /\ history.op = "updateScene"
    /\ Len(retiredTrails) > 0
    /\ retiredTrails[1].elapsed = 3 * history.dt
    /\ retiredTrails[1].fade = RetiredFade - 3 * history.dt
    /\ retiredTrails[1].alphaScale > 0
    /\ retiredTrails[1].alphaScale < Div(RetiredFade - history.dt, RetiredFade)

\* C28: in every state the program reaches (after initialization, after each
\* frame, after each population change) every live entity with
\* teleportPlanned set is paused and every one with teleportDone set has
\* teleportPlanned set; a cruising entity carries neither flag.
C28_TeleportFlagsOnlyWhilePaused ==
    \A i \in 1..Len(orbStates) :
        LET o == orbStates[i]
        IN  /\ o.teleportPlanned => o.isPaused
            /\ o.teleportDone => o.teleportPlanned
            /\ ~o.isPaused => (~o.teleportPlanned /\ ~o.teleportDone)

\* After a population change and a later frame, an entity that hovered with
\* a teleport planned has left its hover in this frame, teleporting on the
\* way out, and is cruising with both flags dropped.
C28_Witness ==
    /\ history.op = "updateScene"
    /\ history.calls = 1
    /\ \E j \in 1..Len(orbStates) :
        /\ ~orbStates[j].isPaused
        /\ orbStates[j].teleported
        /\ ~orbStates[j].teleportPlanned
        /\ ~orbStates[j].teleportDone

\* C29: an entity whose hover has teleportPlanned set does not go back to
\* cruising without its teleport: in the frame that ends the hover the
\* teleport either was done in an earlier frame or is done in this one,
\* whatever the dt values, a dt longer than the whole hover included.
C29_PlannedTeleportBeforeCruising ==
    [][history'.ticks = history.ticks + 1 =>
        \A i \in 1..Len(orbStates) :
            LET o == orbStates[i]
                n == orbStates'[i]
            IN  (o.isPaused /\ o.teleportPlanned /\ ~n.isPaused)
                    => /\ o.teleportDone \/ n.teleported
                       /\ ~(o.teleportDone /\ n.teleported)
      ]_vars

\* A hover with a teleport planned has been ended by its first frame, whose
\* dt is longer than the whole hover: the entity teleported in that frame
\* and is cruising.
C29_Witness ==
    /\ history.op = "updateScene"
    /\ \E i \in 1..Len(orbStates) :
        LET o == orbStates[i]
        IN  /\ ~o.isPaused
            /\ o.teleported
            /\ history.dt > o.pauseDuration
            /\ o.pauseTimer = o.pauseDuration - history.dt

\* C30: once the scene is initialized, setOrbCount(n) on a population that
\* already has clamp(n, 1, 20) entities leaves the entities (their ids,
\* isChaser and targetId included), the retired trails and the id counter
\* as they were, and the count it reports is the population's size; so a
\* second setOrbCount(n) right after a first one changes nothing.
C30_SameCountChangesNothing ==
    [][(/\ history'.op = "setOrbCount"
        /\ history'.calls = history.calls + 1
        /\ glRef
        /\ \/ Len(orbStates) = ClampCount(history'.arg)
           \/ (history.op = "setOrbCount" /\ history.arg = history'.arg))
       => /\ orbStates' = orbStates
          /\ retiredTrails' = retiredTrails
          /\ orbIdCounter' = orbIdCounter
          /\ orbCount' = Len(orbStates)
      ]_vars

\* setOrbCount(3) has just been called on the three initial entities after
\* setOrbChaser made entity 1 a chaser: entity 1 is still a chaser with its
\* target, more chasers are there than assignChasers hands out for three,
\* and nothing was retired or created.
C30_Witness ==
    /\ history.op = "setOrbCount"
    /\ history.arg = 3
    /\ history.calls = 2
    /\ glRef
    /\ Len(orbStates) = 3
    /\ orbIdCounter = 4
    /\ retiredTrails = << >>
    /\ orbStates[1].isChaser
    /\ orbStates[1].targetId # NoTarget
    /\ Cardinality({i \in 1..3 : orbStates[i].isChaser}) = 2

====
